---- MODULE Spec2Model ----
(***************************************************************************)
(* A* search for the fifteen puzzle (main.py): the NumberPuzzle state, the *)
(* move generator, the two heuristics, the goal test, the priority queue   *)
(* and the solve loop, one action per loop iteration.                      *)
(*                                                                         *)
(* Python objects live in `nodes`, a heap of NumberPuzzle records; a       *)
(* reference to an object is its index in `nodes`, and None is 0.          *)
(***************************************************************************)
EXTENDS Integers, Sequences, FiniteSets

VARIABLES puzzle_string, better_h, pc, nodes, open_list, closed_list,
          explored, path, explored_by

vars == <<puzzle_string, better_h, pc, nodes, open_list, closed_list,
          explored, path, explored_by>>

PUZZLE_WIDTH == 4
BLANK == 0

\* start configurations are drawn from the arrangements at most this many
\* slides away from the solved one (plus the named puzzles below)
MaxScramble == 4
\* true distances are computed for arrangements at most this far from solved
MaxDist == 7

Idx == 0 .. (PUZZLE_WIDTH - 1)
NoParent == 0
NoPath == << >>

abs(x) == IF x < 0 THEN -x ELSE x

-----------------------------------------------------------------------------
(* NumberPuzzle *)

\* tokens: 4 rows of 4 tokens, the "-" token written as BLANK.  The cached
\* blank position is that of the last "-" token read, (0, 0) without one.
read_puzzle_string(tokens) ==
  LET dashes == {k \in 0 .. (PUZZLE_WIDTH * PUZZLE_WIDTH - 1) :
                   tokens[(k \div PUZZLE_WIDTH) + 1][(k % PUZZLE_WIDTH) + 1] = BLANK}
      last == CHOOSE k \in dashes : \A m \in dashes : m <= k
  IN [tiles |-> [i \in Idx |-> [j \in Idx |-> tokens[i + 1][j + 1]]],
      blank_r |-> IF dashes = {} THEN 0 ELSE last \div PUZZLE_WIDTH,
      blank_c |-> IF dashes = {} THEN 0 ELSE last % PUZZLE_WIDTH,
      parent |-> NoParent,
      dist_from_start |-> 0,
      key |-> 0]

\* allocates the child after the last object of the heap
copy(heap, self) ==
  Append(heap, [tiles |-> heap[self].tiles,
                blank_r |-> heap[self].blank_r,
                blank_c |-> heap[self].blank_c,
                parent |-> self,
                dist_from_start |-> heap[self].dist_from_start,
                key |-> 0])

\* move without the step count
move_keeps_dist(heap, self, tile_row, tile_column) ==
  LET p == heap[self]
      t1 == [p.tiles EXCEPT ![p.blank_r][p.blank_c] = p.tiles[tile_row][tile_column]]
      t2 == [t1 EXCEPT ![tile_row][tile_column] = BLANK]
  IN [heap EXCEPT ![self] = [p EXCEPT !.tiles = t2,
                                      !.blank_r = tile_row,
                                      !.blank_c = tile_column]]

move(heap, self, tile_row, tile_column) ==
  LET p == heap[self]
      t1 == [p.tiles EXCEPT ![p.blank_r][p.blank_c] = p.tiles[tile_row][tile_column]]
      t2 == [t1 EXCEPT ![tile_row][tile_column] = BLANK]
  IN [heap EXCEPT ![self] = [p EXCEPT !.tiles = t2,
                                      !.blank_r = tile_row,
                                      !.blank_c = tile_column,
                                      !.dist_from_start = p.dist_from_start + 1]]

\* legal_moves with the first two moves in the other order
legal_moves_left_first(heap, self) ==
  LET h1 == IF heap[self].blank_c > 0
            THEN move(copy(heap, self), Len(heap) + 1,
                      heap[self].blank_r, heap[self].blank_c - 1)
            ELSE heap
      h2 == IF h1[self].blank_r > 0
            THEN move(copy(h1, self), Len(h1) + 1,
                      h1[self].blank_r - 1, h1[self].blank_c)
            ELSE h1
      h3 == IF h2[self].blank_r < PUZZLE_WIDTH - 1
            THEN move(copy(h2, self), Len(h2) + 1,
                      h2[self].blank_r + 1, h2[self].blank_c)
            ELSE h2
      h4 == IF h3[self].blank_c < PUZZLE_WIDTH - 1
            THEN move(copy(h3, self), Len(h3) + 1,
                      h3[self].blank_r, h3[self].blank_c + 1)
            ELSE h3
  IN [heap |-> h4,
      legal |-> [i \in 1 .. (Len(h4) - Len(heap)) |-> Len(heap) + i]]

\* the heap after the calls, and the references to the children, in order
legal_moves(heap, self) ==
  LET h1 == IF heap[self].blank_r > 0
            THEN move(copy(heap, self), Len(heap) + 1,
                      heap[self].blank_r - 1, heap[self].blank_c)
            ELSE heap
      h2 == IF h1[self].blank_c > 0
            THEN move(copy(h1, self), Len(h1) + 1,
                      h1[self].blank_r, h1[self].blank_c - 1)
            ELSE h1
      h3 == IF h2[self].blank_r < PUZZLE_WIDTH - 1
            THEN move(copy(h2, self), Len(h2) + 1,
                      h2[self].blank_r + 1, h2[self].blank_c)
            ELSE h2
      h4 == IF h3[self].blank_c < PUZZLE_WIDTH - 1
            THEN move(copy(h3, self), Len(h3) + 1,
                      h3[self].blank_r, h3[self].blank_c + 1)
            ELSE h3
  IN [heap |-> h4,
      legal |-> [i \in 1 .. (Len(h4) - Len(heap)) |-> Len(heap) + i]]

RECURSIVE solved_from(_, _, _)
solved_from(tiles, k, should_be) ==
  IF k = PUZZLE_WIDTH * PUZZLE_WIDTH THEN TRUE
  ELSE IF tiles[k \div PUZZLE_WIDTH][k % PUZZLE_WIDTH] # should_be THEN FALSE
  ELSE solved_from(tiles, k + 1, (should_be + 1) % (PUZZLE_WIDTH * PUZZLE_WIDTH))

\* solved looking at the first row alone
solved_first_row(p) ==
  \A j \in Idx : p.tiles[0][j] = j + 1

solved(p) == solved_from(p.tiles, 0, 1)

RECURSIVE mismatch_from(_, _, _)
mismatch_from(tiles, k, should_be) ==
  IF k = PUZZLE_WIDTH * PUZZLE_WIDTH THEN 0
  ELSE LET v == tiles[k \div PUZZLE_WIDTH][k % PUZZLE_WIDTH]
       IN (IF v # should_be /\ v # 0 THEN 1 ELSE 0)
          + mismatch_from(tiles, k + 1, (should_be + 1) % (PUZZLE_WIDTH * PUZZLE_WIDTH))

tile_mismatch_heuristic(p) == mismatch_from(p.tiles, 0, 1)

RECURSIVE manhattan_from(_, _, _)
manhattan_from(tiles, k, should_be) ==
  IF k = PUZZLE_WIDTH * PUZZLE_WIDTH THEN 0
  ELSE LET ii == k \div PUZZLE_WIDTH
           jj == k % PUZZLE_WIDTH
           v == tiles[ii][jj]
           y_offset == abs((v \div 4) - ii)
           x_offset == abs((v % 4) - jj)
       IN (IF v # should_be /\ v # 0 THEN x_offset + y_offset ELSE 0)
          + manhattan_from(tiles, k + 1, (should_be + 1) % (PUZZLE_WIDTH * PUZZLE_WIDTH))

manhattan_heuristic(p) == manhattan_from(p.tiles, 0, 1)

heuristic(p, h) ==
  IF h THEN manhattan_heuristic(p) ELSE tile_mismatch_heuristic(p)

\* a hash of the blank position alone
hash_of_blank(p) == <<p.blank_r, p.blank_c>>

\* __hash__: the bytes of the tile array, whatever the other fields
hash(p) == p.tiles

\* __lt__
lt(heap, a, b) == heap[a].key < heap[b].key

-----------------------------------------------------------------------------
(* PriorityQueue: a binary heap of references ordered by __lt__.  Positions *)
(* are 0-based as in the list the queue keeps, so position k is q[k + 1].   *)

RECURSIVE siftdown(_, _, _, _, _)
siftdown(heap, q, startpos, pos, newitem) ==
  IF pos > startpos
  THEN LET parentpos == (pos - 1) \div 2
           parent == q[parentpos + 1]
       IN IF lt(heap, newitem, parent)
          THEN siftdown(heap, [q EXCEPT ![pos + 1] = parent], startpos, parentpos, newitem)
          ELSE [q EXCEPT ![pos + 1] = newitem]
  ELSE [q EXCEPT ![pos + 1] = newitem]

RECURSIVE siftup(_, _, _, _, _)
siftup(heap, q, startpos, pos, newitem) ==
  LET endpos == Len(q)
      childpos == 2 * pos + 1
      rightpos == childpos + 1
      smaller == IF rightpos < endpos /\ ~ lt(heap, q[childpos + 1], q[rightpos + 1])
                 THEN rightpos ELSE childpos
  IN IF childpos < endpos
     THEN siftup(heap, [q EXCEPT ![pos + 1] = q[smaller + 1]], startpos, smaller, newitem)
     ELSE siftdown(heap, [q EXCEPT ![pos + 1] = newitem], startpos, pos, newitem)

\* put
heappush(heap, q, item) ==
  siftdown(heap, Append(q, item), 0, Len(q), item)

\* _get of a non-empty queue: the item removed and the queue left
heappop(heap, q) ==
  LET lastelt == q[Len(q)]
      rest == SubSeq(q, 1, Len(q) - 1)
  IN IF rest # << >>
     THEN [item |-> rest[1], queue |-> siftup(heap, rest, 0, 0, lastelt)]
     ELSE [item |-> lastelt, queue |-> rest]

-----------------------------------------------------------------------------
(* solve *)

\* the walk up the parent links from the solved state
RECURSIVE goal_path(_, _, _)
goal_path(heap, goal_state, parent) ==
  IF parent # NoParent
  THEN goal_path(heap, <<parent>> \o goal_state, heap[parent].parent)
  ELSE goal_state

\* the for loop over the children: key, put, parent link
RECURSIVE put_children(_, _, _, _, _, _)
put_children(heap, q, legal, i, state, h) ==
  IF i > Len(legal) THEN [heap |-> heap, queue |-> q]
  ELSE LET node == legal[i]
           keyed == [heap EXCEPT ![node].key =
                       heuristic(heap[node], h) + heap[node].dist_from_start]
           q2 == heappush(keyed, q, node)
           linked == [keyed EXCEPT ![node].parent = state]
       IN put_children(linked, q2, legal, i + 1, state, h)

\* the closed list never consulted
in_closed_list_never(q, closed) == FALSE

in_closed_list(q, closed) == q \in closed

-----------------------------------------------------------------------------
(* The puzzle graph: arrangements, and one edge per slide of a tile that is *)
(* grid-adjacent to the blank into the blank.                               *)

Cells == Idx \X Idx

SolvedTiles ==
  [i \in Idx |-> [j \in Idx |->
     (i * PUZZLE_WIDTH + j + 1) % (PUZZLE_WIDTH * PUZZLE_WIDTH)]]

BlankCells(t) == {c \in Cells : t[c[1]][c[2]] = BLANK}

Adjacent(c, d) == abs(c[1] - d[1]) + abs(c[2] - d[2]) = 1

Slide(t, b, c) ==
  [i \in Idx |-> [j \in Idx |->
     IF <<i, j>> = b THEN t[c[1]][c[2]]
     ELSE IF <<i, j>> = c THEN BLANK
     ELSE t[i][j]]]

Slides(t) ==
  {Slide(t, b, c) : <<b, c>> \in {x \in BlankCells(t) \X Cells : Adjacent(x[1], x[2])}}

RECURSIVE Within(_)
Within(d) ==
  IF d = 0 THEN {SolvedTiles}
  ELSE LET B == Within(d - 1) IN B \cup UNION {Slides(t) : t \in B}

\* <<t, d>>: arrangement t is exactly d slides from solved
DistPairs ==
  {<<SolvedTiles, 0>>} \cup
  UNION {{<<t, d>> : t \in Within(d) \ Within(d - 1)} : d \in 1 .. MaxDist}

Solvable(t) == \E d \in 0 .. MaxDist : <<t, d>> \in DistPairs

Dist(t) == CHOOSE d \in 0 .. MaxDist : <<t, d>> \in DistPairs

RECURSIVE Closure(_)
Closure(S) ==
  LET N == S \cup UNION {Slides(t) : t \in S}
  IN IF N = S THEN S ELSE Closure(N)

\* the slides keep the values on the board, so a board whose values are not
\* those of the solved board never reaches it
SameValues(t, u) ==
  \A v \in 0 .. (PUZZLE_WIDTH * PUZZLE_WIDTH - 1) :
     Cardinality({c \in Cells : t[c[1]][c[2]] = v})
       = Cardinality({c \in Cells : u[c[1]][c[2]] = v})

Unreachable(t) == ~ SameValues(t, SolvedTiles)

-----------------------------------------------------------------------------
(* The puzzles solved *)

TokensOf(t) == [i \in 1 .. PUZZLE_WIDTH |-> [j \in 1 .. PUZZLE_WIDTH |-> t[i - 1][j - 1]]]

zero_moves == << <<1, 2, 3, 4>>, <<5, 6, 7, 8>>, <<9, 10, 11, 12>>, <<13, 14, 15, BLANK>> >>
one_move == << <<1, 2, 3, 4>>, <<5, 6, 7, 8>>, <<9, 10, 11, 12>>, <<13, 14, BLANK, 15>> >>
six_moves == << <<1, 2, 3, 4>>, <<5, 10, 6, 8>>, <<BLANK, 9, 7, 12>>, <<13, 14, 11, 15>> >>
\* seven slides from solved
seven_moves == << <<1, 2, 3, 4>>, <<5, 6, BLANK, 12>>, <<9, 10, 8, 7>>, <<13, 14, 11, 15>> >>
\* boards that cannot be solved: the tiles are not the fifteen distinct ones
no_path_corner == << <<1, 1, 1, 1>>, <<1, 1, 1, 1>>, <<1, 1, 1, 1>>, <<1, 1, 1, BLANK>> >>
no_path_inner == << <<1, 1, 1, 1>>, <<1, BLANK, 1, 1>>, <<1, 1, 1, 1>>, <<1, 1, 1, 1>> >>
no_path_marked == << <<1, 1, 1, 1>>, <<1, 1, 1, 1>>, <<1, 1, 1, 1>>, <<1, 1, 2, BLANK>> >>

Starts ==
  {TokensOf(t) : t \in Within(MaxScramble)}
    \cup {zero_moves, one_move, six_moves, seven_moves,
          no_path_corner, no_path_inner, no_path_marked}

-----------------------------------------------------------------------------
(* The run: solve_and_print reads the puzzle and calls solve; one action   *)
(* per iteration of the while loop of solve.                               *)

Init ==
  /\ puzzle_string \in Starts
  /\ better_h = FALSE
  /\ pc = "start"
  /\ nodes = <<read_puzzle_string(puzzle_string)>>
  /\ open_list = << >>
  /\ closed_list = {}
  /\ explored = 0
  /\ path = NoPath
  /\ explored_by = [h \in {} |-> 0]

\* solve counting the start before the loop pulls it
Solve_counts_start(h) ==
  /\ pc \in {"start", "done"}
  /\ h \notin DOMAIN explored_by
  /\ better_h' = h
  /\ nodes' = <<read_puzzle_string(puzzle_string)>>
  /\ closed_list' = {}
  /\ open_list' = heappush(nodes', << >>, 1)
  /\ explored' = 1
  /\ path' = NoPath
  /\ pc' = "loop"
  /\ UNCHANGED <<puzzle_string, explored_by>>

\* the call, up to the loop; my_puzzle is object 1
Solve(h) ==
  /\ pc \in {"start", "done"}
  /\ h \notin DOMAIN explored_by
  /\ better_h' = h
  /\ nodes' = <<read_puzzle_string(puzzle_string)>>
  /\ closed_list' = {}
  /\ open_list' = heappush(nodes', << >>, 1)
  /\ explored' = 0
  /\ path' = NoPath
  /\ pc' = "loop"
  /\ UNCHANGED <<puzzle_string, explored_by>>

Return(p, n) ==
  /\ path' = p
  /\ explored_by' = [h \in DOMAIN explored_by \cup {better_h} |->
                       IF h = better_h THEN n ELSE explored_by[h]]
  /\ pc' = "done"

\* the state pulled is solved
PopSolved ==
  /\ pc = "loop"
  /\ open_list # << >>
  /\ LET got == heappop(nodes, open_list)
         state == got.item
     IN /\ solved(nodes[state])
        /\ explored' = explored + 1
        /\ open_list' = got.queue
        /\ Return(goal_path(nodes, <<state>>, nodes[state].parent), explored')
  /\ UNCHANGED <<puzzle_string, better_h, nodes, closed_list>>

\* the state pulled has the tiles of a state already expanded
PopClosed ==
  /\ pc = "loop"
  /\ open_list # << >>
  /\ LET got == heappop(nodes, open_list)
         state == got.item
     IN /\ ~ solved(nodes[state])
        /\ in_closed_list(hash(nodes[state]), closed_list)
        /\ explored' = explored + 1
        /\ open_list' = got.queue
  /\ UNCHANGED <<puzzle_string, better_h, pc, nodes, closed_list, path, explored_by>>

\* the state pulled is expanded
PopExpand ==
  /\ pc = "loop"
  /\ open_list # << >>
  /\ LET got == heappop(nodes, open_list)
         state == got.item
         q == hash(nodes[state])
         moves == legal_moves(nodes, state)
         put == put_children(moves.heap, got.queue, moves.legal, 1, state, better_h)
     IN /\ ~ solved(nodes[state])
        /\ ~ in_closed_list(q, closed_list)
        /\ explored' = explored + 1
        /\ nodes' = put.heap
        /\ open_list' = put.queue
        /\ closed_list' = closed_list \cup {q}
  /\ UNCHANGED <<puzzle_string, better_h, pc, path, explored_by>>

\* the open list is empty
NoPathFound ==
  /\ pc = "loop"
  /\ open_list = << >>
  /\ Return(NoPath, explored)
  /\ UNCHANGED <<puzzle_string, better_h, nodes, open_list, closed_list, explored>>

Next ==
  \/ \E h \in BOOLEAN : Solve(h)
  \/ PopSolved
  \/ PopClosed
  \/ PopExpand
  \/ NoPathFound

Spec == Init /\ [][Next]_vars

\* One more iteration of the while loop: its condition and the count of the
\* states pulled.  The steps of Next that are Iterate steps are the PopSolved,
\* PopClosed and PopExpand steps, and one of them is enabled exactly when the
\* loop condition holds.
Iterate ==
  /\ pc = "loop"
  /\ open_list # << >>
  /\ explored' = explored + 1

\* the loop runs to completion: nothing suspends it
FairSpec == Spec /\ WF_explored(Iterate) /\ WF_vars(NoPathFound)

TypeOK ==
  /\ pc \in {"start", "loop", "done"}
  /\ explored \in Nat
  /\ \A i \in 1 .. Len(open_list) : open_list[i] \in 1 .. Len(nodes)

-----------------------------------------------------------------------------
(* Properties *)

my_puzzle == read_puzzle_string(puzzle_string)

Objects == 1 .. Len(nodes)

Returned == pc = "done"

BothRun == DOMAIN explored_by = BOOLEAN

\* u is t after one slide of a tile next to the blank into the blank
OneSlide(t, u) ==
  \E b \in Cells, c \in Cells :
     /\ Adjacent(b, c)
     /\ t[b[1]][b[2]] = BLANK
     /\ t[c[1]][c[2]] # BLANK
     /\ u[b[1]][b[2]] = t[c[1]][c[2]]
     /\ u[c[1]][c[2]] = BLANK
     /\ \A d \in Cells \ {b, c} : u[d[1]][d[2]] = t[d[1]][d[2]]

RECURSIVE CityBlock(_, _)
CityBlock(t, k) ==
  IF k = PUZZLE_WIDTH * PUZZLE_WIDTH THEN 0
  ELSE LET row == k \div PUZZLE_WIDTH
           col == k % PUZZLE_WIDTH
           v == t[row][col]
       IN (IF v = BLANK THEN 0
           ELSE abs(row - ((v - 1) \div 4)) + abs(col - ((v - 1) % 4)))
          + CityBlock(t, k + 1)

\* C1: a solvable start gets a path, under either heuristic, and the path
\* has as many moves as the start is slides away from solved.
C1_Optimality ==
  (Returned /\ Solvable(my_puzzle.tiles))
    => /\ path # NoPath
       /\ Len(path) - 1 = Dist(my_puzzle.tiles)

\* C2: neither heuristic is above the true number of slides to solved, on
\* any state the search holds.
C2_Admissible ==
  \A s \in Objects :
     Solvable(nodes[s].tiles)
       => /\ tile_mismatch_heuristic(nodes[s]) <= Dist(nodes[s].tiles)
          /\ manhattan_heuristic(nodes[s]) <= Dist(nodes[s].tiles)

\* C3: manhattan_heuristic is the sum over the tiles of the city-block
\* distance to the cell ((v-1) div 4, (v-1) mod 4), the blank adding nothing.
C3_ManhattanSum ==
  \A s \in Objects : manhattan_heuristic(nodes[s]) = CityBlock(nodes[s].tiles, 0)

\* C4: along a returned path each state is the one before after one slide
\* of a tile next to the blank, and dist_from_start goes 0, 1, 2, ...
C4_MoveValidity ==
  (Returned /\ path # NoPath)
    => /\ nodes[path[1]].dist_from_start = 0
       /\ \A k \in 1 .. (Len(path) - 1) :
             /\ OneSlide(nodes[path[k]].tiles, nodes[path[k + 1]].tiles)
             /\ nodes[path[k + 1]].dist_from_start = nodes[path[k]].dist_from_start + 1

C4_Witness ==
  /\ Returned
  /\ Len(path) >= 4

\* C5: a returned path ends on the solved arrangement and starts on the
\* arrangement solve was called on.
C5_GoalInvariant ==
  (Returned /\ path # NoPath)
    => /\ nodes[path[Len(path)]].tiles = SolvedTiles
       /\ nodes[path[1]].tiles = my_puzzle.tiles

C5_Witness ==
  /\ Returned
  /\ Len(path) >= 2
  /\ nodes[path[Len(path)]].tiles = SolvedTiles

\* the objects that have children are the states expanded
Expanded == {nodes[i].parent : i \in Objects} \ {NoParent}

\* C6: from a start that cannot reach solved, the loop ends, with no path,
\* once every arrangement the start can reach has been expanded.
C6_Exhausts ==
  (pc = "loop" /\ Unreachable(my_puzzle.tiles))
    ~> (/\ Returned
        /\ Unreachable(my_puzzle.tiles)
        /\ path = NoPath
        /\ open_list = << >>
        /\ explored_by[better_h] = explored
        /\ {nodes[a].tiles : a \in Expanded} = Closure({my_puzzle.tiles}))

C6_Witness ==
  /\ Returned
  /\ Unreachable(my_puzzle.tiles)
  /\ path = NoPath
  /\ Cardinality({nodes[a].tiles : a \in Expanded}) > PUZZLE_WIDTH * PUZZLE_WIDTH

\* C7: the Manhattan run pulls at most as many states as the mismatch run
\* on the same start.
C7_Dominance ==
  BothRun => explored_by[TRUE] <= explored_by[FALSE]

\* C8: on the solved start the path is the start alone and one state was
\* pulled, under either heuristic.
C8_AlreadySolved ==
  (Returned /\ my_puzzle.tiles = SolvedTiles)
    => /\ path = <<1>>
       /\ explored = 1
       /\ explored_by[better_h] = 1

C8_Witness ==
  /\ Returned
  /\ BothRun
  /\ puzzle_string = zero_moves
  /\ Len(path) = 1

\* no two states expanded have the same tiles
ExpandedOnce ==
  \A a \in Expanded, b \in Expanded : nodes[a].tiles = nodes[b].tiles => a = b

\* C9: every pull counts in explored; a pulled unsolved state whose tiles
\* are in the closed list leaves no child behind; and no two states with
\* the same tiles ever get children.
C9_NoReexpansion ==
  [][(pc = "loop" /\ open_list # << >>)
       => LET got == heappop(nodes, open_list)
              state == nodes[got.item]
          IN /\ explored' = explored + 1
             /\ (~ solved(state) /\ state.tiles \in closed_list)
                  => /\ nodes' = nodes
                     /\ open_list' = got.queue
                     /\ closed_list' = closed_list
             /\ (nodes' # nodes)
                  => /\ state.tiles \notin closed_list
                     /\ closed_list' = closed_list \cup {state.tiles}
             /\ ExpandedOnce']_vars

\* some tiles were pulled again after their expansion
C9_Witness ==
  /\ pc = "loop"
  /\ explored > Cardinality(closed_list)
  /\ \E i \in Objects, j \in Objects : i # j /\ nodes[i].tiles = nodes[j].tiles

InBounds(c) == c[1] \in Idx /\ c[2] \in Idx

\* up, left, down, right of cell b, those on the board
NeighboursInOrder(b) ==
  SelectSeq(<< <<b[1] - 1, b[2]>>, <<b[1], b[2] - 1>>,
               <<b[1] + 1, b[2]>>, <<b[1], b[2] + 1>> >>, InBounds)

\* C10: from a state whose cached blank is the cell holding 0, legal_moves
\* gives one child per neighbour of the blank on the board, in the order up,
\* left, down, right, each the parent after that slide, one step further
\* from the start and linked to the parent, and changes no existing state.
C10_LegalMoves ==
  \A s \in Objects :
     LET p == nodes[s]
         b == <<p.blank_r, p.blank_c>>
         around == NeighboursInOrder(b)
         moves == legal_moves(<<p>>, 1)
     IN BlankCells(p.tiles) = {b}
          => /\ Len(moves.legal) = Len(around)
             /\ Len(moves.heap) = 1 + Len(around)
             /\ moves.heap[1] = p
             /\ \A k \in 1 .. Len(around) :
                   LET child == moves.heap[moves.legal[k]]
                   IN /\ moves.legal[k] = 1 + k
                      /\ child.tiles = Slide(p.tiles, b, around[k])
                      /\ child.blank_r = around[k][1]
                      /\ child.blank_c = around[k][2]
                      /\ child.dist_from_start = p.dist_from_start + 1
                      /\ child.parent = 1

\* a state with four neighbours and one with two have been expanded
C10_Witness ==
  /\ \E s \in Objects :
        /\ Len(NeighboursInOrder(<<nodes[s].blank_r, nodes[s].blank_c>>)) = 4
        /\ Cardinality({i \in Objects : nodes[i].parent = s}) = 4
  /\ \E s \in Objects :
        /\ Len(NeighboursInOrder(<<nodes[s].blank_r, nodes[s].blank_c>>)) = 2
        /\ Cardinality({i \in Objects : nodes[i].parent = s}) = 2

====
